---------------------------- MODULE Spec2Model ----------------------------
(***************************************************************************)
(* State-machine model of the valentine page: the floating hearts emitter  *)
(* (src/src/hearts.ts), the runaway "No" button (src/src/runaway-button.ts)*)
(* and the celebration sequencer (src/unnamed/part_000).                   *)
(*                                                                         *)
(* JavaScript runs every callback to completion, so each action below is   *)
(* one callback (an exported function call, a timer callback or one event  *)
(* listener invocation).  Timers are untimed: a pending timer may fire at  *)
(* any later moment, timers of one chain in schedule order.                *)
(***************************************************************************)
EXTENDS Integers, Sequences, FiniteSets

(***************************************************************************)
(* Bounds of the exploration.                                              *)
(***************************************************************************)
\* largest overridden maxHearts explored
MaxM == 2
\* heart elements ever created in the container
MaxHearts == 4
\* successful startFloatingHearts calls
MaxStarts == 2
\* console.error lines kept
MaxLog == 1
\* initRunawayButton calls
MaxInits == 2
\* largest escapeCount explored
MaxEscapes == 11
\* Math.random() draws k/RandDen, k in 0..RandDen-1
RandDen == 2
\* showCelebration calls that pass the element checks
MaxShows == 2
\* burst hearts ever created on the body
MaxBodyHearts == 1
\* heart bursts in progress
MaxBursts == 4
\* escapeCount up to which SpecEntry lets the No button be clicked
MaxEntryEscapes == 2
\* sparkle elements ever created
MaxSparkles == 3
\* creation timeouts of bursts that fail
MaxSkips == 1
\* largest count the page passes to createHeartBurst
MaxCount == 3
\* startCelebrationLoop calls made by the page
MaxLoops == 1
\* bursts in progress at once in SpecBurst
MaxPageBursts == 2
\* transient elements of all kinds ever created in SpecTransient
MaxTransient == 2

(***************************************************************************)
(* Program constants.                                                      *)
(***************************************************************************)
DefaultMaxHearts == 25
InitialBatch == 8

NULL == 0

VARIABLES
  \* ---- hearts.ts
  maxHearts,        \* mergedConfig.maxHearts the page passes to every start
  children,         \* heart elements attached to the container
  removeTimers,     \* hearts whose removal timeout is pending
  nextHeart,        \* identity of the next created heart element
  batchTimers,      \* pending initial-batch timeouts
  intervals,        \* active spawn intervals (setInterval ids)
  heartIntervalId,  \* module variable heartIntervalId (NULL = null)
  nextInterval,     \* next setInterval id
  \* ---- runaway-button.ts
  escapeCount,      \* module variable escapeCount
  isRunaway,        \* module variable isRunaway
  inits,            \* one record per initRunawayButton call: its closure
  listeners,        \* the No button's listener list per event type
  dispatch,         \* the event being dispatched: the listeners it has still
                    \* to run and escapeCount when it arrived
  noButton,         \* the No button: runaway class, text, inline style
  yesClasses,       \* growing-N classes on the Yes button (N in 1..4)
  layout,           \* window.innerWidth/Height and the No button's box
  \* ---- celebration (part_000) and the burst half of hearts.ts
  questionActive,   \* 'active' class on the question screen
  celebrationActive,\* 'active' class on the celebration screen
  showTimers,       \* pending 400 ms timeouts, each with its onCelebrate
  callbackRuns,     \* onCelebrate invocations so far
  bursts,           \* heart bursts with creation timeouts still pending
  loopTimeouts,     \* pending secondary-burst timeouts (500 ms, 1000 ms)
  loopIntervals,    \* celebration intervals ever set, each active or cleared
  bodyHearts,       \* burst hearts attached to document.body
  bodyTimers,       \* burst hearts whose 3000 ms removal is pending
  nextBodyHeart,    \* identity of the next burst heart
  burstSkips,       \* creation timeouts of bursts that skipped their heart
  \* ---- the Yes button's sparkle trail (initYesButton, createSparkle)
  sparkleThrottle,  \* closure variable sparkleThrottle
  throttleTimers,   \* pending 100 ms timeouts that reset sparkleThrottle
  sparkles,         \* sparkle elements attached to document.body
  sparkleTimers,    \* sparkles whose 800 ms removal is pending
  nextSparkle,      \* identity of the next sparkle
  \* ---- shared
  console           \* console.error lines, in order

heartVars == <<maxHearts, children, removeTimers, nextHeart, batchTimers,
               intervals, heartIntervalId, nextInterval>>

runVars == <<escapeCount, isRunaway, inits, listeners, dispatch, noButton,
             yesClasses, layout>>

celVars == <<questionActive, celebrationActive, showTimers, callbackRuns,
             bursts, loopTimeouts, loopIntervals, bodyHearts, bodyTimers,
             nextBodyHeart, burstSkips>>

sparkVars == <<sparkleThrottle, throttleTimers, sparkles, sparkleTimers,
               nextSparkle>>

vars == <<heartVars, runVars, celVars, sparkVars, console>>

otherThanHearts == <<runVars, celVars, sparkVars>>
otherThanRunaway == <<heartVars, celVars, sparkVars>>
otherThanCelebration == <<heartVars, runVars, sparkVars>>
otherThanSparkles == <<heartVars, runVars, celVars>>

(***************************************************************************)
(* console.error(message)                                                  *)
(***************************************************************************)
LogError(msg) == console' = Append(console, msg)

(***************************************************************************)
(* hearts.ts                                                               *)
(***************************************************************************)
HeartsInit ==
  /\ children = {}
  /\ removeTimers = {}
  /\ nextHeart = 1
  /\ batchTimers = 0
  /\ intervals = {}
  /\ heartIntervalId = NULL
  /\ nextInterval = 1

\* createFloatingHeart with the ceiling test off by one (> for >=)
createFloatingHeartOffByOne ==
  IF Cardinality(children) > maxHearts
    THEN UNCHANGED <<children, removeTimers, nextHeart>>
    ELSE /\ nextHeart <= MaxHearts
         /\ children' = children \cup {nextHeart}
         /\ removeTimers' = removeTimers \cup {nextHeart}
         /\ nextHeart' = nextHeart + 1

\* createFloatingHeart(container, config): nothing at the ceiling, else a new
\* heart is appended and its removal timeout scheduled.
createFloatingHeart ==
  IF Cardinality(children) >= maxHearts
    THEN UNCHANGED <<children, removeTimers, nextHeart>>
    ELSE /\ nextHeart <= MaxHearts
         /\ children' = children \cup {nextHeart}
         /\ removeTimers' = removeTimers \cup {nextHeart}
         /\ nextHeart' = nextHeart + 1

\* startFloatingHearts(containerId, config)
startFloatingHearts(containerExists) ==
  IF ~containerExists
    THEN /\ Len(console) < MaxLog
         /\ LogError("[Hearts] Container element not found")
         /\ UNCHANGED heartVars
    ELSE /\ nextInterval <= MaxStarts
         /\ batchTimers' = batchTimers + InitialBatch
         /\ intervals' = intervals \cup {nextInterval}
         /\ heartIntervalId' = nextInterval
         /\ nextInterval' = nextInterval + 1
         /\ UNCHANGED <<maxHearts, children, removeTimers, nextHeart, console>>

\* one timeout of the initial batch fires
BatchTimer ==
  /\ batchTimers > 0
  /\ batchTimers' = batchTimers - 1
  /\ createFloatingHeart
  /\ UNCHANGED <<maxHearts, intervals, heartIntervalId, nextInterval, console>>

\* an active spawn interval ticks
SpawnTick(id) ==
  /\ id \in intervals
  /\ createFloatingHeart
  /\ UNCHANGED <<maxHearts, batchTimers, intervals, heartIntervalId,
                 nextInterval, console>>

\* the removal timeout of heart h fires
RemoveTimer(h) ==
  /\ h \in removeTimers
  /\ removeTimers' = removeTimers \ {h}
  /\ children' = IF h \in children THEN children \ {h} ELSE children
  /\ UNCHANGED <<maxHearts, nextHeart, batchTimers, intervals, heartIntervalId,
                 nextInterval, console>>

\* heart h leaves the container before its removal timeout has fired
DetachHeart(h) ==
  /\ h \in children
  /\ children' = children \ {h}
  /\ UNCHANGED <<maxHearts, removeTimers, nextHeart, batchTimers, intervals,
                 heartIntervalId, nextInterval, console>>

\* stopFloatingHearts also clearing the pending timeouts of the initial batch
stopFloatingHeartsClearBatch ==
  /\ IF heartIntervalId # NULL
       THEN /\ intervals' = intervals \ {heartIntervalId}
            /\ heartIntervalId' = NULL
            /\ batchTimers' = 0
       ELSE UNCHANGED <<intervals, heartIntervalId, batchTimers>>
  /\ UNCHANGED <<maxHearts, children, removeTimers, nextHeart, nextInterval,
                 console>>

\* stopFloatingHearts also clearing the removal timeouts of the hearts
stopFloatingHeartsDropTimers ==
  /\ IF heartIntervalId # NULL
       THEN /\ intervals' = intervals \ {heartIntervalId}
            /\ heartIntervalId' = NULL
            /\ removeTimers' = {}
       ELSE UNCHANGED <<intervals, heartIntervalId, removeTimers>>
  /\ UNCHANGED <<maxHearts, children, nextHeart, batchTimers, nextInterval,
                 console>>

\* stopFloatingHearts also retracting the hearts and their removal timeouts
stopFloatingHeartsRetract ==
  /\ IF heartIntervalId # NULL
       THEN /\ intervals' = intervals \ {heartIntervalId}
            /\ heartIntervalId' = NULL
            /\ children' = {}
            /\ removeTimers' = {}
       ELSE UNCHANGED <<intervals, heartIntervalId, children, removeTimers>>
  /\ UNCHANGED <<maxHearts, nextHeart, batchTimers, nextInterval, console>>

\* stopFloatingHearts()
stopFloatingHearts ==
  /\ IF heartIntervalId # NULL
       THEN /\ intervals' = intervals \ {heartIntervalId}
            /\ heartIntervalId' = NULL
       ELSE UNCHANGED <<intervals, heartIntervalId>>
  /\ UNCHANGED <<maxHearts, children, removeTimers, nextHeart, batchTimers,
                 nextInterval, console>>

(***************************************************************************)
(* runaway-button.ts                                                       *)
(***************************************************************************)
Min(a, b) == IF a <= b THEN a ELSE b
Max(a, b) == IF a >= b THEN a ELSE b

\* DEFAULT_RUNAWAY_CONFIG: edgePadding and the ten escalating messages
DefaultEdgePadding == 20
DefaultMessages ==
  <<"No", "Are you sure?", "Seriously??", "Think again!", "Please!",
    "Don't do this!", "I will be sad...", "Pleeease!", "Last chance!",
    "You can't catch me!">>

DEFAULT_RUNAWAY_CONFIG ==
  [edgePadding |-> DefaultEdgePadding, escapeMessages |-> DefaultMessages]

\* the config argument: none, or an override of both fields
Configs ==
  { DEFAULT_RUNAWAY_CONFIG,
    [edgePadding |-> 0, escapeMessages |-> <<"Nope", "Never">>] }

\* window size and the No button's bounding box, as the page lays them out
Layouts ==
  { [innerWidth |-> 800, innerHeight |-> 600, width |-> 100, height |-> 40],
    [innerWidth |-> 120, innerHeight |-> 70, width |-> 100, height |-> 40] }

\* an inline style property that was never assigned
Unset == -1

EventTypes == {"mouseenter", "touchstart", "click"}

\* the Math.random() draws explored: the smallest and the largest k/RandDen
Draws == {0, RandDen - 1}

\* no event is being dispatched
Idle == [before |-> 0, pending |-> <<>>]

RunawayInit ==
  /\ escapeCount = 0
  /\ isRunaway = FALSE
  /\ inits = <<>>
  /\ listeners = [t \in EventTypes |-> <<>>]
  /\ dispatch = Idle
  /\ noButton = [runaway |-> FALSE, text |-> "(label)", left |-> Unset,
                 top |-> Unset, transition |-> FALSE]
  /\ yesClasses = {}
  /\ layout \in Layouts

\* randomBetween(min, max) for the draw k/RandDen, in units of 1/RandDen px
randomBetween(min, max, k) == k * (max - min) + min * RandDen

\* getRandomSafePosition with the button's size left out of maxX and maxY
getRandomSafePositionNoSize(buttonWidth, buttonHeight, config, kx, ky) ==
  LET pad  == config.edgePadding
      maxX == layout.innerWidth - pad
      maxY == layout.innerHeight - pad
  IN  [x |-> Max(pad * RandDen,
                 Min(randomBetween(pad, maxX, kx), maxX * RandDen)),
       y |-> Max(pad * RandDen,
                 Min(randomBetween(pad, maxY, ky), maxY * RandDen))]

\* getRandomSafePosition(buttonWidth, buttonHeight, config) for the draws
\* kx/RandDen and ky/RandDen; coordinates in units of 1/RandDen px
getRandomSafePosition(buttonWidth, buttonHeight, config, kx, ky) ==
  LET pad  == config.edgePadding
      maxX == layout.innerWidth - buttonWidth - pad
      maxY == layout.innerHeight - buttonHeight - pad
  IN  [x |-> Max(pad * RandDen,
                 Min(randomBetween(pad, maxX, kx), maxX * RandDen)),
       y |-> Max(pad * RandDen,
                 Min(randomBetween(pad, maxY, ky), maxY * RandDen))]

\* the message index wrapping around instead of clamping
messageIndexWrap(count, messages) == count % Len(messages)

\* Math.min(escapeCount, config.escapeMessages.length - 1)
messageIndex(count, messages) == Min(count, Len(messages) - 1)

\* escapeFromCursor(button, config) with the two Math.random() draws
escapeFromCursor(config, kx, ky) ==
  LET pos == getRandomSafePosition(layout.width, layout.height, config, kx, ky)
      idx == messageIndex(escapeCount, config.escapeMessages)
  IN  /\ isRunaway' = TRUE
      /\ noButton' = [runaway    |-> IF ~isRunaway THEN TRUE
                                                  ELSE noButton.runaway,
                      text       |-> config.escapeMessages[idx + 1],
                      left       |-> pos.x,
                      top        |-> pos.y,
                      transition |-> TRUE]
      /\ escapeCount' = escapeCount + 1

\* Math.min(Math.floor(escapeCount / 2), 4)
growthLevel(count) == Min(count \div 2, 4)

\* growYesButton without the removal of the previous growth classes
growYesButtonKeepOld ==
  LET level == growthLevel(escapeCount')
  IN  yesClasses' = yesClasses \cup (IF level > 0 THEN {level} ELSE {})

\* growYesButton(yesButton), run after escapeFromCursor
growYesButton ==
  LET level == growthLevel(escapeCount')
  IN  yesClasses' = (yesClasses \ {1, 2, 3, 4})
                      \cup (IF level > 0 THEN {level} ELSE {})

\* initRunawayButton reporting every missing button before it returns
initRunawayButtonLogBoth(noExists, yesExists, config) ==
  /\ dispatch = Idle
  /\ Len(inits) < MaxInits
  /\ IF ~noExists \/ ~yesExists
       THEN /\ Len(console) < MaxLog
            /\ console' =
                 console
                   \o (IF ~noExists
                         THEN <<"[RunawayButton] No button element not found">>
                         ELSE <<>>)
                   \o (IF ~yesExists
                         THEN <<"[RunawayButton] Yes button element not found">>
                         ELSE <<>>)
            /\ inits' = Append(inits, [ok |-> FALSE,
                                       config |-> DEFAULT_RUNAWAY_CONFIG])
            /\ UNCHANGED listeners
       ELSE /\ inits' = Append(inits, [ok |-> TRUE, config |-> config])
            /\ listeners' =
                 [t \in EventTypes |-> Append(listeners[t], Len(inits) + 1)]
            /\ UNCHANGED console
  /\ UNCHANGED <<escapeCount, isRunaway, dispatch, noButton, yesClasses,
                 layout>>

\* initRunawayButton(noButtonId, yesButtonId, config)
initRunawayButton(noExists, yesExists, config) ==
  /\ dispatch = Idle
  /\ Len(inits) < MaxInits
  /\ IF ~noExists
       THEN /\ Len(console) < MaxLog
            /\ LogError("[RunawayButton] No button element not found")
            /\ inits' = Append(inits, [ok |-> FALSE,
                                       config |-> DEFAULT_RUNAWAY_CONFIG])
            /\ UNCHANGED listeners
       ELSE IF ~yesExists
       THEN /\ Len(console) < MaxLog
            /\ LogError("[RunawayButton] Yes button element not found")
            /\ inits' = Append(inits, [ok |-> FALSE,
                                       config |-> DEFAULT_RUNAWAY_CONFIG])
            /\ UNCHANGED listeners
       ELSE /\ inits' = Append(inits, [ok |-> TRUE, config |-> config])
            /\ listeners' =
                 [t \in EventTypes |-> Append(listeners[t], Len(inits) + 1)]
            /\ UNCHANGED console
  /\ UNCHANGED <<escapeCount, isRunaway, dispatch, noButton, yesClasses,
                 layout>>

\* s without its entries equal to i (removeEventListener)
Without(s, i) == SelectSeq(s, LAMBDA e : e # i)

\* the cleanup function also taking the growth class off the Yes button and
\* the runaway class off the No button
CleanupResetButtons(i) ==
  /\ dispatch = Idle
  /\ i \in 1..Len(inits)
  /\ IF inits[i].ok
       THEN /\ listeners' = [listeners EXCEPT
                               !["mouseenter"] = Without(@, i),
                               !["touchstart"] = Without(@, i)]
            /\ escapeCount' = 0
            /\ isRunaway' = FALSE
            /\ yesClasses' = {}
            /\ noButton' = [noButton EXCEPT !.runaway = FALSE]
       ELSE UNCHANGED <<listeners, escapeCount, isRunaway, yesClasses,
                        noButton>>
  /\ UNCHANGED <<inits, dispatch, layout, console>>

\* the cleanup function resetting the flag and leaving the counter
CleanupKeepCount(i) ==
  /\ dispatch = Idle
  /\ i \in 1..Len(inits)
  /\ IF inits[i].ok
       THEN /\ listeners' = [listeners EXCEPT
                               !["mouseenter"] = Without(@, i),
                               !["touchstart"] = Without(@, i)]
            /\ isRunaway' = FALSE
            /\ UNCHANGED escapeCount
       ELSE UNCHANGED <<listeners, escapeCount, isRunaway>>
  /\ UNCHANGED <<inits, dispatch, noButton, yesClasses, layout, console>>

\* the function initRunawayButton call i returned is called
Cleanup(i) ==
  /\ dispatch = Idle
  /\ i \in 1..Len(inits)
  /\ IF inits[i].ok
       THEN /\ listeners' = [listeners EXCEPT
                               !["mouseenter"] = Without(@, i),
                               !["touchstart"] = Without(@, i)]
            /\ escapeCount' = 0
            /\ isRunaway' = FALSE
       ELSE UNCHANGED <<listeners, escapeCount, isRunaway>>
  /\ UNCHANGED <<inits, dispatch, noButton, yesClasses, layout, console>>

\* the user's pointer enters, touches or clicks the No button: the browser
\* queues the listeners registered for that event type, in registration order
Interact(type) ==
  /\ dispatch = Idle
  /\ listeners[type] # <<>>
  /\ escapeCount + Len(listeners[type]) <= MaxEscapes
  /\ dispatch' = [before |-> escapeCount, pending |-> listeners[type]]
  /\ UNCHANGED <<escapeCount, isRunaway, inits, listeners, noButton,
                 yesClasses, layout, console>>

\* handleEscape (or the anonymous click listener) of the next queued listener
handleEscape(kx, ky) ==
  /\ dispatch.pending # <<>>
  /\ escapeFromCursor(inits[Head(dispatch.pending)].config, kx, ky)
  /\ growYesButton
  /\ dispatch' = IF Len(dispatch.pending) = 1
                   THEN Idle
                   ELSE [dispatch EXCEPT !.pending = Tail(@)]
  /\ UNCHANGED <<inits, listeners, layout, console>>

\* getEscapeCount()
getEscapeCount == escapeCount

\* the window is resized
Resize(l) ==
  /\ dispatch = Idle
  /\ l # layout
  /\ layout' = l
  /\ UNCHANGED <<escapeCount, isRunaway, inits, listeners, dispatch, noButton,
                 yesClasses, console>>

(***************************************************************************)
(* hearts.ts, bursts; part_000, celebration                                *)
(***************************************************************************)
CelebrationInit ==
  /\ questionActive = TRUE
  /\ celebrationActive = FALSE
  /\ showTimers = <<>>
  /\ callbackRuns = 0
  /\ bursts = <<>>
  /\ loopTimeouts = 0
  /\ loopIntervals = {}
  /\ bodyHearts = {}
  /\ bodyTimers = {}
  /\ nextBodyHeart = 1
  /\ burstSkips = 0

\* the onCelebrate argument: absent, a function that returns, one that throws
Callbacks == {"none", "returns", "throws"}

\* createHeartBurst(centerX, centerY, count): count creation timeouts, the
\* i-th at i * 50 ms, appended to the bursts bs in progress
createHeartBurst(bs, at, count) ==
  IF count > 0 THEN Append(bs, [at |-> at, count |-> count, left |-> count])
               ELSE bs

\* startCelebrationLoop(intervalMs): the bursts, timeouts and interval it adds
startCelebrationLoop(bs, intervalMs) ==
  [bursts        |-> createHeartBurst(bs, "center", 40),
   loopTimeouts  |-> loopTimeouts + 2,
   loopIntervals |-> loopIntervals \cup
                       {[id |-> Cardinality(loopIntervals) + 1,
                         intervalMs |-> intervalMs, active |-> TRUE]}]

\* showCelebration activating the celebration screen within the call
showCelebrationEager(questionExists, celebrationExists, onCelebrate) ==
  IF ~questionExists
    THEN /\ Len(console) < MaxLog
         /\ LogError("[Celebration] Question screen not found")
         /\ UNCHANGED celVars
    ELSE IF ~celebrationExists
    THEN /\ Len(console) < MaxLog
         /\ LogError("[Celebration] Celebration screen not found")
         /\ UNCHANGED celVars
    ELSE /\ Len(showTimers) + Cardinality(loopIntervals) < MaxShows
         /\ questionActive' = FALSE
         /\ celebrationActive' = TRUE
         /\ showTimers' = Append(showTimers, onCelebrate)
         /\ UNCHANGED <<callbackRuns, bursts, loopTimeouts,
                        loopIntervals, bodyHearts, bodyTimers, nextBodyHeart,
                        burstSkips,
                        console>>

\* showCelebration hiding the question screen before it looks for the
\* celebration screen
showCelebrationHideFirst(questionExists, celebrationExists, onCelebrate) ==
  IF ~questionExists
    THEN /\ Len(console) < MaxLog
         /\ LogError("[Celebration] Question screen not found")
         /\ UNCHANGED celVars
    ELSE IF ~celebrationExists
    THEN /\ Len(console) < MaxLog
         /\ LogError("[Celebration] Celebration screen not found")
         /\ questionActive' = FALSE
         /\ UNCHANGED <<celebrationActive, showTimers, callbackRuns, bursts,
                        loopTimeouts, loopIntervals, bodyHearts, bodyTimers,
                        nextBodyHeart, burstSkips>>
    ELSE /\ Len(showTimers) + Cardinality(loopIntervals) < MaxShows
         /\ questionActive' = FALSE
         /\ showTimers' = Append(showTimers, onCelebrate)
         /\ UNCHANGED <<celebrationActive, callbackRuns, bursts, loopTimeouts,
                        loopIntervals, bodyHearts, bodyTimers, nextBodyHeart,
                        burstSkips,
                        console>>

\* showCelebration(questionScreenId, celebrationScreenId, onCelebrate)
showCelebration(questionExists, celebrationExists, onCelebrate) ==
  IF ~questionExists
    THEN /\ Len(console) < MaxLog
         /\ LogError("[Celebration] Question screen not found")
         /\ UNCHANGED celVars
    ELSE IF ~celebrationExists
    THEN /\ Len(console) < MaxLog
         /\ LogError("[Celebration] Celebration screen not found")
         /\ UNCHANGED celVars
    ELSE /\ Len(showTimers) + Cardinality(loopIntervals) < MaxShows
         /\ questionActive' = FALSE
         /\ showTimers' = Append(showTimers, onCelebrate)
         /\ UNCHANGED <<celebrationActive, callbackRuns, bursts, loopTimeouts,
                        loopIntervals, bodyHearts, bodyTimers, nextBodyHeart,
                        burstSkips,
                        console>>

\* a click on the Yes button: the listener initYesButton registered
YesClick == showCelebration(TRUE, TRUE, "none")

\* the delayed step toggling the celebration screen's class
CelebrationTimerToggle ==
  /\ showTimers # <<>>
  /\ LET onCelebrate == Head(showTimers)
         loop == startCelebrationLoop(createHeartBurst(bursts, "center", 50),
                                      3000)
     IN  /\ showTimers' = Tail(showTimers)
         /\ celebrationActive' = ~celebrationActive
         /\ bursts' = loop.bursts
         /\ loopTimeouts' = loop.loopTimeouts
         /\ loopIntervals' = loop.loopIntervals
         /\ callbackRuns' = IF onCelebrate # "none" THEN callbackRuns + 1
                                                    ELSE callbackRuns
         /\ IF onCelebrate = "throws"
              THEN /\ Len(console) < MaxLog
                   /\ LogError("[Celebration] Failed during celebration display")
              ELSE UNCHANGED console
  /\ UNCHANGED <<questionActive, bodyHearts, bodyTimers, nextBodyHeart,
                 burstSkips>>

\* the delayed step undoing its activation, burst and loop when the callback
\* throws
CelebrationTimerRollback ==
  /\ showTimers # <<>>
  /\ LET onCelebrate == Head(showTimers)
         loop == startCelebrationLoop(createHeartBurst(bursts, "center", 50),
                                      3000)
     IN  /\ showTimers' = Tail(showTimers)
         /\ callbackRuns' = IF onCelebrate # "none" THEN callbackRuns + 1
                                                    ELSE callbackRuns
         /\ IF onCelebrate = "throws"
              THEN /\ Len(console) < MaxLog
                   /\ LogError("[Celebration] Failed during celebration display")
                   /\ UNCHANGED <<celebrationActive, bursts, loopTimeouts,
                                  loopIntervals>>
              ELSE /\ celebrationActive' = TRUE
                   /\ bursts' = loop.bursts
                   /\ loopTimeouts' = loop.loopTimeouts
                   /\ loopIntervals' = loop.loopIntervals
                   /\ UNCHANGED console
  /\ UNCHANGED <<questionActive, bodyHearts, bodyTimers, nextBodyHeart,
                 burstSkips>>

\* the 400 ms timeout of the oldest pending showCelebration call fires
CelebrationTimer ==
  /\ showTimers # <<>>
  /\ LET onCelebrate == Head(showTimers)
         loop == startCelebrationLoop(createHeartBurst(bursts, "center", 50),
                                      3000)
     IN  /\ showTimers' = Tail(showTimers)
         /\ celebrationActive' = TRUE
         /\ bursts' = loop.bursts
         /\ loopTimeouts' = loop.loopTimeouts
         /\ loopIntervals' = loop.loopIntervals
         /\ callbackRuns' = IF onCelebrate # "none" THEN callbackRuns + 1
                                                    ELSE callbackRuns
         /\ IF onCelebrate = "throws"
              THEN /\ Len(console) < MaxLog
                   /\ LogError("[Celebration] Failed during celebration display")
              ELSE UNCHANGED console
  /\ UNCHANGED <<questionActive, bodyHearts, bodyTimers, nextBodyHeart,
                 burstSkips>>

\* createHeartBurst(centerX, centerY, count) called by the page
CallBurst(count) ==
  /\ Len(bursts) < MaxBursts
  /\ bursts' = createHeartBurst(bursts, "point", count)
  /\ UNCHANGED <<questionActive, celebrationActive, showTimers, callbackRuns,
                 loopTimeouts, loopIntervals, bodyHearts, bodyTimers,
                 nextBodyHeart, burstSkips, console>>

\* bursts once the next creation timeout of burst j has fired
AfterEvent(j) ==
  IF bursts[j].left = 1
    THEN SubSeq(bursts, 1, j - 1) \o SubSeq(bursts, j + 1, Len(bursts))
    ELSE [bursts EXCEPT ![j].left = @ - 1]

\* a creation timeout whose failure cancels the rest of its burst
BurstTimerAbort(j, ok) ==
  /\ j \in 1..Len(bursts)
  /\ IF ok
       THEN /\ nextBodyHeart <= MaxBodyHearts
            /\ bursts' = AfterEvent(j)
            /\ bodyHearts' = bodyHearts \cup {nextBodyHeart}
            /\ bodyTimers' = bodyTimers \cup {nextBodyHeart}
            /\ nextBodyHeart' = nextBodyHeart + 1
            /\ UNCHANGED burstSkips
       ELSE /\ burstSkips < MaxSkips
            /\ bursts' = SubSeq(bursts, 1, j - 1)
                           \o SubSeq(bursts, j + 1, Len(bursts))
            /\ burstSkips' = burstSkips + 1
            /\ UNCHANGED <<bodyHearts, bodyTimers, nextBodyHeart>>
  /\ UNCHANGED <<questionActive, celebrationActive, showTimers, callbackRuns,
                 loopTimeouts, loopIntervals, console>>

\* the next creation timeout of burst j fires: one heart on the body and its
\* 3000 ms removal timeout, or, when creating the heart throws (ok false),
\* nothing but the end of this timeout
BurstTimer(j, ok) ==
  /\ j \in 1..Len(bursts)
  /\ bursts' = AfterEvent(j)
  /\ IF ok
       THEN /\ nextBodyHeart <= MaxBodyHearts
            /\ bodyHearts' = bodyHearts \cup {nextBodyHeart}
            /\ bodyTimers' = bodyTimers \cup {nextBodyHeart}
            /\ nextBodyHeart' = nextBodyHeart + 1
            /\ UNCHANGED burstSkips
       ELSE /\ burstSkips < MaxSkips
            /\ burstSkips' = burstSkips + 1
            /\ UNCHANGED <<bodyHearts, bodyTimers, nextBodyHeart>>
  /\ UNCHANGED <<questionActive, celebrationActive, showTimers, callbackRuns,
                 loopTimeouts, loopIntervals, console>>

\* startCelebrationLoop(intervalMs) called by the page, which keeps the
\* returned function
StartLoop(intervalMs) ==
  /\ Cardinality(loopIntervals) < MaxLoops
  /\ Len(bursts) < MaxBursts
  /\ LET loop == startCelebrationLoop(bursts, intervalMs)
     IN  /\ bursts' = loop.bursts
         /\ loopTimeouts' = loop.loopTimeouts
         /\ loopIntervals' = loop.loopIntervals
  /\ UNCHANGED <<questionActive, celebrationActive, showTimers, callbackRuns,
                 bodyHearts, bodyTimers, nextBodyHeart, burstSkips, console>>

\* a cancel function that also drops the pending secondary timeouts
CancelLoopAll(id) ==
  /\ \E iv \in loopIntervals : iv.id = id
  /\ loopIntervals' = {IF iv.id = id THEN [iv EXCEPT !.active = FALSE] ELSE iv :
                         iv \in loopIntervals}
  /\ loopTimeouts' = 0
  /\ UNCHANGED <<questionActive, celebrationActive, showTimers, callbackRuns,
                 bursts, bodyHearts, bodyTimers, nextBodyHeart, burstSkips,
                 console>>

\* the function startCelebrationLoop returned for interval id is called:
\* clearInterval(id), which does nothing to an interval already cleared
CancelLoop(id) ==
  /\ \E iv \in loopIntervals : iv.id = id
  /\ loopIntervals' = {IF iv.id = id THEN [iv EXCEPT !.active = FALSE] ELSE iv :
                         iv \in loopIntervals}
  /\ UNCHANGED <<questionActive, celebrationActive, showTimers, callbackRuns,
                 bursts, loopTimeouts, bodyHearts, bodyTimers, nextBodyHeart,
                 burstSkips, console>>

\* burstAtRandomPosition from one of the two secondary timeouts
LoopTimeout ==
  /\ loopTimeouts > 0
  /\ Len(bursts) < MaxBursts
  /\ loopTimeouts' = loopTimeouts - 1
  /\ bursts' = createHeartBurst(bursts, "random", 15)
  /\ UNCHANGED <<questionActive, celebrationActive, showTimers, callbackRuns,
                 loopIntervals, bodyHearts, bodyTimers, nextBodyHeart,
                 burstSkips, console>>

\* burstAtRandomPosition from a celebration interval that was not cleared
LoopTick(iv) ==
  /\ iv \in loopIntervals
  /\ iv.active
  /\ Len(bursts) < MaxBursts
  /\ bursts' = createHeartBurst(bursts, "random", 15)
  /\ UNCHANGED <<questionActive, celebrationActive, showTimers, callbackRuns,
                 loopTimeouts, loopIntervals, bodyHearts, bodyTimers,
                 nextBodyHeart, burstSkips, console>>

\* the 3000 ms removal timeout of burst heart h fires
BodyRemoveTimer(h) ==
  /\ h \in bodyTimers
  /\ bodyTimers' = bodyTimers \ {h}
  /\ bodyHearts' = IF h \in bodyHearts THEN bodyHearts \ {h} ELSE bodyHearts
  /\ UNCHANGED <<questionActive, celebrationActive, showTimers, callbackRuns,
                 bursts, loopTimeouts, loopIntervals, nextBodyHeart,
                 burstSkips, console>>


(***************************************************************************)
(* initYesButton (main), createSparkle (part_000)                          *)
(***************************************************************************)
SparkleInit ==
  /\ sparkleThrottle = FALSE
  /\ throttleTimers = 0
  /\ sparkles = {}
  /\ sparkleTimers = {}
  /\ nextSparkle = 1

\* createSparkle(event): one sparkle on the body and its 800 ms removal
\* timeout, or, when creating it throws (ok false), one logged error
createSparkle(ok) ==
  IF ok
    THEN /\ nextSparkle <= MaxSparkles
         /\ sparkles' = sparkles \cup {nextSparkle}
         /\ sparkleTimers' = sparkleTimers \cup {nextSparkle}
         /\ nextSparkle' = nextSparkle + 1
         /\ UNCHANGED console
    ELSE /\ Len(console) < MaxLog
         /\ LogError("[Celebration] Failed to create sparkle")
         /\ UNCHANGED <<sparkles, sparkleTimers, nextSparkle>>

\* the mousemove listener without its throttle test
MouseMoveUnthrottled(ok) ==
  /\ sparkleThrottle' = TRUE
  /\ createSparkle(ok)
  /\ throttleTimers' = throttleTimers + 1

\* the Yes button's mousemove listener
MouseMove(ok) ==
  IF sparkleThrottle
    THEN UNCHANGED <<sparkVars, console>>
    ELSE /\ sparkleThrottle' = TRUE
         /\ createSparkle(ok)
         /\ throttleTimers' = throttleTimers + 1

\* the 100 ms timeout of the mousemove listener fires
ThrottleReset ==
  /\ throttleTimers > 0
  /\ throttleTimers' = throttleTimers - 1
  /\ sparkleThrottle' = FALSE
  /\ UNCHANGED <<sparkles, sparkleTimers, nextSparkle, console>>

\* burst heart h leaves the document before its removal timeout has fired
DetachBodyHeart(h) ==
  /\ h \in bodyHearts
  /\ bodyHearts' = bodyHearts \ {h}
  /\ UNCHANGED <<questionActive, celebrationActive, showTimers, callbackRuns,
                 bursts, loopTimeouts, loopIntervals, bodyTimers, nextBodyHeart,
                 burstSkips, console>>

\* sparkle s leaves the document before its removal timeout has fired
DetachSparkle(s) ==
  /\ s \in sparkles
  /\ sparkles' = sparkles \ {s}
  /\ UNCHANGED <<sparkleThrottle, throttleTimers, sparkleTimers, nextSparkle,
                 console>>

\* the 800 ms removal timeout of sparkle s fires
SparkleRemoveTimer(s) ==
  /\ s \in sparkleTimers
  /\ sparkleTimers' = sparkleTimers \ {s}
  /\ sparkles' = IF s \in sparkles THEN sparkles \ {s} ELSE sparkles
  /\ UNCHANGED <<sparkleThrottle, throttleTimers, nextSparkle, console>>


(***************************************************************************)
(* Specifications: one per component, each leaving the others untouched.   *)
(***************************************************************************)
InitHearts ==
  /\ maxHearts \in (0..MaxM) \cup {DefaultMaxHearts}
  /\ HeartsInit
  /\ RunawayInit
  /\ layout.innerWidth = 800
  /\ CelebrationInit
  /\ SparkleInit
  /\ console = <<>>

NextHearts ==
  \/ \E e \in BOOLEAN : startFloatingHearts(e) /\ UNCHANGED otherThanHearts
  \/ BatchTimer /\ UNCHANGED otherThanHearts
  \/ \E id \in 1..MaxStarts : SpawnTick(id) /\ UNCHANGED otherThanHearts
  \/ \E h \in 1..MaxHearts : RemoveTimer(h) /\ UNCHANGED otherThanHearts
  \/ stopFloatingHearts /\ UNCHANGED otherThanHearts

SpecHearts == InitHearts /\ [][NextHearts]_vars

InitRunaway ==
  /\ maxHearts = DefaultMaxHearts
  /\ HeartsInit
  /\ RunawayInit
  /\ CelebrationInit
  /\ SparkleInit
  /\ console = <<>>

NextRunaway ==
  \/ \E n, y \in BOOLEAN, c \in Configs :
        initRunawayButton(n, y, c) /\ UNCHANGED otherThanRunaway
  \/ \E i \in 1..MaxInits : Cleanup(i) /\ UNCHANGED otherThanRunaway
  \/ \E t \in EventTypes : Interact(t) /\ UNCHANGED otherThanRunaway
  \/ \E kx, ky \in Draws : handleEscape(kx, ky) /\ UNCHANGED otherThanRunaway
  \/ \E l \in Layouts : Resize(l) /\ UNCHANGED otherThanRunaway

SpecRunaway == InitRunaway /\ [][NextRunaway]_vars

InitCelebration ==
  /\ maxHearts = DefaultMaxHearts
  /\ HeartsInit
  /\ RunawayInit
  /\ layout.innerWidth = 800
  /\ CelebrationInit
  /\ SparkleInit
  /\ console = <<>>

NextCelebration ==
  \/ \E q, c \in BOOLEAN, cb \in Callbacks : showCelebration(q, c, cb)
        /\ UNCHANGED otherThanCelebration
  \/ YesClick /\ UNCHANGED otherThanCelebration
  \/ CelebrationTimer /\ UNCHANGED otherThanCelebration
  \/ \E j \in 1..MaxBursts : BurstTimer(j, TRUE)
        /\ UNCHANGED otherThanCelebration
  \/ LoopTimeout /\ UNCHANGED otherThanCelebration
  \/ \E iv \in loopIntervals : LoopTick(iv) /\ UNCHANGED otherThanCelebration
  \/ \E h \in 1..MaxBodyHearts : BodyRemoveTimer(h)
        /\ UNCHANGED otherThanCelebration

SpecCelebration == InitCelebration /\ [][NextCelebration]_vars

\* the sparkle trail of the Yes button; timers that are pending fire
InitSparkle == InitCelebration

NextSparkle ==
  \/ \E ok \in BOOLEAN : MouseMove(ok) /\ UNCHANGED otherThanSparkles
  \/ ThrottleReset /\ UNCHANGED otherThanSparkles
  \/ \E s \in 1..MaxSparkles : DetachSparkle(s) /\ UNCHANGED otherThanSparkles
  \/ \E s \in 1..MaxSparkles : SparkleRemoveTimer(s)
        /\ UNCHANGED otherThanSparkles

SpecSparkle ==
  /\ InitSparkle
  /\ [][NextSparkle]_vars
  /\ WF_vars(ThrottleReset /\ UNCHANGED otherThanSparkles)
  /\ \A s \in 1..MaxSparkles :
        WF_vars(SparkleRemoveTimer(s) /\ UNCHANGED otherThanSparkles)

\* the transient elements of the page (floating hearts, burst hearts,
\* sparkles) with their emitters: one start of the floating hearts, one
\* celebration loop with one burst besides its first in progress; removal
\* timeouts that are pending fire
InitTransient == InitCelebration

TransientCount == (nextHeart - 1) + (nextBodyHeart - 1) + (nextSparkle - 1)

NextTransient ==
  \/ startFloatingHearts(TRUE) /\ nextInterval = 1
        /\ UNCHANGED otherThanHearts
  \/ stopFloatingHearts /\ UNCHANGED otherThanHearts
  \/ BatchTimer /\ TransientCount < MaxTransient /\ UNCHANGED otherThanHearts
  \/ \E id \in intervals : SpawnTick(id) /\ TransientCount < MaxTransient
        /\ UNCHANGED otherThanHearts
  \/ \E h \in 1..MaxTransient : DetachHeart(h) /\ UNCHANGED otherThanHearts
  \/ \E h \in 1..MaxTransient : RemoveTimer(h) /\ UNCHANGED otherThanHearts
  \/ StartLoop(2000) /\ loopIntervals = {} /\ UNCHANGED otherThanCelebration
  \/ \E id \in 1..MaxLoops : CancelLoop(id) /\ UNCHANGED otherThanCelebration
  \/ LoopTimeout /\ Len(bursts) = 1
        /\ UNCHANGED otherThanCelebration
  \/ \E iv \in loopIntervals : LoopTick(iv) /\ Len(bursts) = 1
        /\ UNCHANGED otherThanCelebration
  \/ \E j \in 1..MaxBursts : BurstTimer(j, TRUE)
        /\ TransientCount < MaxTransient
        /\ UNCHANGED otherThanCelebration
  \/ \E h \in 1..MaxTransient : DetachBodyHeart(h)
        /\ UNCHANGED otherThanCelebration
  \/ \E h \in 1..MaxTransient : BodyRemoveTimer(h)
        /\ UNCHANGED otherThanCelebration
  \/ MouseMove(TRUE) /\ TransientCount < MaxTransient
        /\ UNCHANGED otherThanSparkles
  \/ ThrottleReset /\ UNCHANGED otherThanSparkles
  \/ \E s \in 1..MaxTransient : DetachSparkle(s) /\ UNCHANGED otherThanSparkles
  \/ \E s \in 1..MaxTransient : SparkleRemoveTimer(s)
        /\ UNCHANGED otherThanSparkles

SpecTransient ==
  /\ InitTransient
  /\ [][NextTransient]_vars
  /\ \A h \in 1..MaxTransient :
        /\ WF_vars(RemoveTimer(h) /\ UNCHANGED otherThanHearts)
        /\ WF_vars(BodyRemoveTimer(h) /\ UNCHANGED otherThanCelebration)
        /\ WF_vars(SparkleRemoveTimer(h) /\ UNCHANGED otherThanSparkles)

\* the exported burst and loop functions of hearts.ts, called by a page
InitBurst == InitCelebration

NextBurst ==
  \/ \E count \in 0..MaxCount : CallBurst(count)
        /\ Len(bursts) < MaxPageBursts
        /\ UNCHANGED otherThanCelebration
  \/ \E j \in 1..MaxBursts, ok \in BOOLEAN : BurstTimer(j, ok)
        /\ UNCHANGED otherThanCelebration
  \/ \E h \in 1..MaxBodyHearts : BodyRemoveTimer(h)
        /\ UNCHANGED otherThanCelebration
  \/ StartLoop(2000)
        /\ Len(bursts) < MaxPageBursts
        /\ UNCHANGED otherThanCelebration
  \/ \E id \in 1..MaxLoops : CancelLoop(id) /\ UNCHANGED otherThanCelebration
  \/ LoopTimeout
        /\ Len(bursts) < MaxPageBursts
        /\ UNCHANGED otherThanCelebration
  \/ \E iv \in loopIntervals : LoopTick(iv)
        /\ Len(bursts) < MaxPageBursts
        /\ UNCHANGED otherThanCelebration

SpecBurst == InitBurst /\ [][NextBurst]_vars

\* the entry points of the three modules, called with present or missing
\* element ids, the cleanup functions, and clicks on the No button
InitEntry == InitCelebration

NextEntry ==
  \/ \E e \in BOOLEAN : startFloatingHearts(e) /\ UNCHANGED otherThanHearts
  \/ stopFloatingHearts /\ UNCHANGED otherThanHearts
  \/ \E n, y \in BOOLEAN :
        initRunawayButton(n, y, DEFAULT_RUNAWAY_CONFIG)
          /\ UNCHANGED otherThanRunaway
  \/ \E i \in 1..MaxInits : Cleanup(i) /\ UNCHANGED otherThanRunaway
  \/ Interact("click") /\ escapeCount < MaxEntryEscapes
        /\ UNCHANGED otherThanRunaway
  \/ handleEscape(0, 0) /\ UNCHANGED otherThanRunaway
  \/ \E q, c \in BOOLEAN : showCelebration(q, c, "none")
        /\ UNCHANGED otherThanCelebration

SpecEntry == InitEntry /\ [][NextEntry]_vars

(***************************************************************************)
(* Properties.                                                             *)
(***************************************************************************)

\* one handleEscape (or anonymous click listener) invocation: an escape
EscapeStep ==
  /\ dispatch.pending # <<>>
  /\ dispatch' = IF Len(dispatch.pending) = 1
                   THEN Idle
                   ELSE [dispatch EXCEPT !.pending = Tail(@)]

\* the closure config of the listener an escape step runs
EscapeConfig == inits[Head(dispatch.pending)].config

\* C1: the number of live hearts in the container never exceeds maxHearts,
\* whatever the interleaving of batch timers, spawn ticks, removal timers,
\* stops and repeated starts; and a step taken while the count is at
\* maxHearts adds no heart.
C1_HeartCeiling ==
  /\ [](Cardinality(children) <= maxHearts)
  /\ [][Cardinality(children) >= maxHearts => children' \subseteq children]_vars

\* C1 witness: the container is at a ceiling of MaxM and a batch timer has
\* fired without creating a heart (more batch timers fired than hearts were
\* ever created).
C1_Witness ==
  /\ maxHearts = MaxM
  /\ Cardinality(children) = maxHearts
  /\ nextInterval = 2
  /\ nextHeart = maxHearts + 1
  /\ InitialBatch - batchTimers > maxHearts

\* C2 (as claimed): every interaction with the No button that runs the escape
\* routine leaves getEscapeCount() exactly 1 above its value when the
\* interaction arrived, and the counter only ever decreases in a cleanup
\* call, which leaves it at 0.
C2_OnePerInteraction ==
  [][ /\ (dispatch.pending # <<>> /\ dispatch' = Idle
            => getEscapeCount' = dispatch.before + 1)
      /\ (getEscapeCount' < getEscapeCount
            => getEscapeCount' = 0 /\ \E i \in 1..Len(inits) : Cleanup(i))
    ]_vars

\* C3: after every escape the Yes button carries exactly the growth class of
\* tier min(floor(escapeCount/2), 4) of the incremented counter: none for
\* tier 0, never two.
C3_GrowthTier ==
  [][EscapeStep =>
       LET tier == IF escapeCount' \div 2 < 4 THEN escapeCount' \div 2 ELSE 4
       IN  yesClasses' = IF tier = 0 THEN {} ELSE {tier}]_vars

\* C3 witness: the counter passed 8 and the Yes button is at the top tier.
C3_Witness == escapeCount >= 9 /\ yesClasses = {4} /\ dispatch = Idle

\* C4: every escape sets the No button's text to the message at index
\* min(c, L - 1), c the counter before the increment and L the length of the
\* message list; the index never wraps.
C4_MessageIndex ==
  [][EscapeStep =>
       LET L == Len(EscapeConfig.escapeMessages)
           i == IF escapeCount <= L - 1 THEN escapeCount ELSE L - 1
       IN  noButton'.text = EscapeConfig.escapeMessages[i + 1]]_vars

\* C4 witness: the eleventh escape under the default list showed the last
\* message again.
C4_Witness ==
  /\ escapeCount = 11
  /\ noButton.text = DefaultMessages[10]
  /\ \A i \in 1..Len(inits) : inits[i].config = DEFAULT_RUNAWAY_CONFIG

\* C5: whenever the viewport exceeds 2*edgePadding + the button's size on
\* both axes, the position an escape assigns satisfies
\* edgePadding <= x <= innerWidth - width - edgePadding and the same for y
\* (coordinates are in units of 1/RandDen px).
C5_SafePosition ==
  [][EscapeStep =>
       LET pad == EscapeConfig.edgePadding
       IN  (/\ layout.innerWidth > 2 * pad + layout.width
            /\ layout.innerHeight > 2 * pad + layout.height)
           => /\ pad * RandDen <= noButton'.left
              /\ noButton'.left
                   <= (layout.innerWidth - layout.width - pad) * RandDen
              /\ pad * RandDen <= noButton'.top
              /\ noButton'.top
                   <= (layout.innerHeight - layout.height - pad) * RandDen]_vars

\* C5 witness: viewport 800x600, button 100x40, padding 20, and the button
\* was moved strictly inside [20, 680] x [20, 540].
C5_Witness ==
  /\ layout = [innerWidth |-> 800, innerHeight |-> 600,
               width |-> 100, height |-> 40]
  /\ \A i \in 1..Len(inits) : inits[i].config = DEFAULT_RUNAWAY_CONFIG
  /\ noButton.left > 20 * RandDen /\ noButton.left <= 680 * RandDen
  /\ noButton.top > 20 * RandDen /\ noButton.top <= 540 * RandDen

\* a showCelebration call that passed both element checks
ShowStep == Len(showTimers') = Len(showTimers) + 1

\* the 400 ms delayed step of the oldest pending showCelebration call
DelayedStep == showTimers # <<>> /\ showTimers' = Tail(showTimers)

\* C6: a showCelebration call with both screens present deactivates the
\* question screen within the call and does not activate the celebration
\* screen; the celebration screen is activated only by a delayed step, and
\* that step also starts the centered 50-heart burst and the celebration
\* loop (its 40-heart burst, two secondary timeouts and a 3000 ms interval)
\* and then invokes the callback, if one was given.
C6_DelayedActivation ==
  [][ /\ (ShowStep => ~questionActive' /\ celebrationActive' = celebrationActive)
      /\ (celebrationActive' /\ ~celebrationActive => DelayedStep)
      /\ (DelayedStep =>
            /\ celebrationActive'
            /\ bursts' = bursts \o
                 << [at |-> "center", count |-> 50, left |-> 50],
                    [at |-> "center", count |-> 40, left |-> 40] >>
            /\ loopTimeouts' = loopTimeouts + 2
            /\ loopIntervals \subseteq loopIntervals'
            /\ Cardinality(loopIntervals') = Cardinality(loopIntervals) + 1
            /\ \A iv \in loopIntervals' \ loopIntervals : iv.intervalMs = 3000
            /\ callbackRuns' = callbackRuns
                 + (IF Head(showTimers) = "none" THEN 0 ELSE 1))
    ]_vars

\* C6 witness: the delayed step has fired and run a callback: the question
\* screen is inactive, the celebration screen active, a loop running.
C6_Witness ==
  /\ ~questionActive
  /\ celebrationActive
  /\ callbackRuns = 1
  /\ loopIntervals # {}

\* a public entry point called with a required element id that does not exist
MissingElementCall ==
  \/ startFloatingHearts(FALSE)
  \/ \E n, y \in BOOLEAN, c \in Configs :
        (~n \/ ~y) /\ initRunawayButton(n, y, c)
  \/ \E q, c \in BOOLEAN, cb \in Callbacks :
        (~q \/ ~c) /\ showCelebration(q, c, cb)

\* C7: an entry point called with a missing required element logs exactly one
\* error, also when both ids of initRunawayButton or showCelebration are
\* missing (the call returns normally: every action here is a completed
\* call).
C7_OneLoggedError ==
  [][MissingElementCall => Len(console') = Len(console) + 1]_vars

\* C7 witness: one error is logged and it is a runaway-button one, from a
\* call recorded as failed.
C7_Witness ==
  /\ console = <<"[RunawayButton] No button element not found">>
  /\ \E i \in 1..Len(inits) : ~inits[i].ok

\* the console lines that report a missing element
NotFound ==
  { "[Hearts] Container element not found",
    "[RunawayButton] No button element not found",
    "[RunawayButton] Yes button element not found",
    "[Celebration] Question screen not found",
    "[Celebration] Celebration screen not found" }

\* C8: a call that reports a missing element changes nothing else: no screen
\* marker, no timer, no timer handle, no listener, no counter; what
\* initRunawayButton returns then is a cleanup that leaves escapeCount, the
\* runaway flag and the listeners as they are.
C8_NoStateChange ==
  [][ /\ (/\ Len(console') > Len(console)
          /\ console'[Len(console')] \in NotFound)
         => /\ UNCHANGED <<heartVars, celVars>>
            /\ UNCHANGED <<escapeCount, isRunaway, listeners, dispatch,
                           noButton, yesClasses, layout, sparkVars>>
            /\ inits' \in {inits, Append(inits, [ok |-> FALSE,
                                   config |-> DEFAULT_RUNAWAY_CONFIG])}
      /\ \A i \in 1..Len(inits) :
           (~inits[i].ok /\ Cleanup(i))
             => UNCHANGED <<escapeCount, isRunaway, listeners>>
    ]_vars

\* C8 witness: showCelebration reported the missing celebration screen while
\* the question screen was present and active, the counter above 0 and a
\* spawn interval running: all of it is as it was.
C8_Witness ==
  /\ console = <<"[Celebration] Celebration screen not found">>
  /\ questionActive
  /\ showTimers = <<>>
  /\ escapeCount > 0
  /\ isRunaway
  /\ heartIntervalId # NULL

\* C9 (as claimed): after stopFloatingHearts, and so after two calls in a
\* row (the second finds the handle null and does nothing), no recurring
\* spawn timer is active.  The handle is null exactly initially and after a
\* stop.
C9_StopLeavesNoTimer == heartIntervalId = NULL => intervals = {}

\* C10 (as claimed): at most one recurring spawn timer is active and it is
\* the one the handle records.
C10_SingleTimer ==
  /\ Cardinality(intervals) <= 1
  /\ \A id \in intervals : id = heartIntervalId

\* C11 (as claimed): once the cleanup function returned by a successful
\* initRunawayButton has run, a mouseenter or touchstart on the No button
\* runs no escape routine any more, while a click still runs it.
C11_CleanupDetaches ==
  [][\A i \in 1..Len(inits) :
       inits[i].ok /\ Cleanup(i)
         => /\ listeners'["mouseenter"] = <<>>
            /\ listeners'["touchstart"] = <<>>
            /\ listeners'["click"] # <<>>]_vars

\* C12: the screen state only moves forward: under any sequence of
\* showCelebration calls and timer firings, a question screen without its
\* active class never regains it and a celebration screen with its active
\* class never loses it; the celebration screen is never active while the
\* question screen still is.
C12_ForwardOnly ==
  /\ [](celebrationActive => ~questionActive)
  /\ [][ /\ (~questionActive => ~questionActive')
         /\ (celebrationActive => celebrationActive')]_vars

\* C12 witness: a second delayed step has run on a celebration screen that
\* was already active, and a callback has been called.
C12_Witness ==
  /\ celebrationActive
  /\ ~questionActive
  /\ Cardinality(loopIntervals) = 2
  /\ callbackRuns > 0

\* C13 (as claimed): however often the Yes trigger fires, the delayed
\* celebration step runs at most once, so at most one celebration interval is
\* ever active.
C13_OneShot == Cardinality({iv \in loopIntervals : iv.active}) <= 1

\* C18: a delayed step whose callback throws logs the failure and rolls
\* nothing back: afterwards the question screen is inactive, the celebration
\* screen is active, and the step's 50-heart burst and its celebration loop
\* (40-heart burst, two timeouts, one interval) are in progress.
C18_NoRollback ==
  [][DelayedStep /\ Head(showTimers) = "throws"
       => /\ console' =
               Append(console, "[Celebration] Failed during celebration display")
          /\ ~questionActive'
          /\ celebrationActive'
          /\ bursts' = bursts \o <<[at |-> "center", count |-> 50, left |-> 50],
                                   [at |-> "center", count |-> 40, left |-> 40]>>
          /\ loopTimeouts' = loopTimeouts + 2
          /\ \E iv \in loopIntervals' \ loopIntervals :
                /\ iv.active
                /\ loopIntervals' = loopIntervals \cup {iv}]_vars

\* C18 witness: the failure of a throwing callback is in the log, the
\* celebration screen is active and timers of the loop started in that step
\* have fired since.
C18_Witness ==
  /\ console = <<"[Celebration] Failed during celebration display">>
  /\ celebrationActive
  /\ ~questionActive
  /\ callbackRuns = 1
  /\ loopTimeouts = 0
  /\ Len(bursts) = 4

\* C16: a stopFloatingHearts call leaves the container's hearts, their
\* pending removal timeouts and the pending batch timeouts as they were, and
\* a call made while heartIntervalId is null changes nothing at all.
C16_StopRetractsNothing ==
  [][stopFloatingHearts
       => /\ children' = children
          /\ removeTimers' = removeTimers
          /\ batchTimers' = batchTimers
          /\ (heartIntervalId = NULL => UNCHANGED vars)]_vars

\* C16 witness: the emitter was started and stopped, and hearts spawned
\* before the stop are in the container with their removal timeouts pending.
C16_Witness ==
  /\ nextInterval = 2
  /\ heartIntervalId = NULL
  /\ intervals = {}
  /\ batchTimers = InitialBatch
  /\ Cardinality(children) >= 2
  /\ removeTimers = children

\* C19: isRunaway is false initially, an escape leaves it true, it turns
\* true only in an escape and false only in the cleanup function of a
\* successful initRunawayButton; in every reachable state escapeCount > 0
\* implies isRunaway.
C19_RunawayFlag ==
  /\ ~isRunaway
  /\ [](escapeCount > 0 => isRunaway)
  /\ [][ /\ (EscapeStep => isRunaway')
         /\ (~isRunaway /\ isRunaway' => EscapeStep)
         /\ (isRunaway /\ ~isRunaway'
               => \E i \in 1..Len(inits) : inits[i].ok /\ Cleanup(i))]_vars

\* C19 witness: the flag is true again after an escape that followed a
\* cleanup (the only listener left is the click listener, the counter
\* restarted from 0).
C19_Witness ==
  /\ isRunaway
  /\ escapeCount = 2
  /\ Len(inits) = 1
  /\ listeners["mouseenter"] = <<>>
  /\ listeners["click"] = <<1>>
  /\ dispatch = Idle

\* C14: createHeartBurst(x, y, count) schedules exactly count creation
\* timeouts and changes nothing else; each timeout that fires takes exactly
\* one event off its own burst, whether it creates its heart (with the
\* heart's removal timeout) or fails and creates none; a failure leaves the
\* remaining timeouts of the burst and every other burst pending and logs
\* nothing.
C14_BurstIsolation ==
  /\ [](\A j \in 1..Len(bursts) : bursts[j].left \in 1..bursts[j].count)
  /\ [][ /\ \A count \in 0..MaxCount :
              CallBurst(count)
                => /\ bursts' =
                        IF count = 0
                          THEN bursts
                          ELSE Append(bursts, [at |-> "point", count |-> count,
                                               left |-> count])
                   /\ UNCHANGED <<bodyHearts, bodyTimers, console>>
         /\ \A j \in 1..Len(bursts), ok \in BOOLEAN :
              BurstTimer(j, ok)
                => /\ Len(bursts') = IF bursts[j].left = 1 THEN Len(bursts) - 1
                                                           ELSE Len(bursts)
                   /\ bursts[j].left > 1
                        => bursts' = [bursts EXCEPT ![j].left = @ - 1]
                   /\ \A k \in 1..Len(bursts) :
                        /\ k < j => bursts'[k] = bursts[k]
                        /\ k > j /\ bursts[j].left = 1 => bursts'[k - 1] = bursts[k]
                   /\ console' = console
                   /\ IF ok
                        THEN /\ bodyHearts' = bodyHearts \cup {nextBodyHeart}
                             /\ bodyTimers' = bodyTimers \cup {nextBodyHeart}
                             /\ nextBodyHeart \notin bodyHearts
                        ELSE UNCHANGED <<bodyHearts, bodyTimers>>
       ]_vars

\* C14 witness: of the three creation timeouts of one page burst, one failed,
\* one created its heart and the third is still pending.
C14_Witness ==
  /\ bursts = <<[at |-> "point", count |-> 3, left |-> 1]>>
  /\ burstSkips = 1
  /\ nextBodyHeart = 2
  /\ loopIntervals = {}

\* C15: startCelebrationLoop starts one centered 40-heart burst at once, two
\* secondary timeouts and one recurring interval of the given period; the
\* returned function clears that interval and nothing else; a recurring
\* 15-heart burst fires only from an interval that was not cleared, a cleared
\* interval stays cleared, and the secondary timeouts and the creation
\* timeouts of bursts already begun stay able to fire after the cancellation.
C15_CancelStopsRecurringOnly ==
  /\ [](/\ loopTimeouts > 0 /\ Len(bursts) < MaxBursts => ENABLED LoopTimeout
        /\ \A j \in 1..Len(bursts) :
              nextBodyHeart <= MaxBodyHearts => ENABLED BurstTimer(j, TRUE))
  /\ [][ /\ \A ms \in {2000, 3000} :
              StartLoop(ms)
                => /\ bursts' = Append(bursts, [at |-> "center", count |-> 40,
                                                left |-> 40])
                   /\ loopTimeouts' = loopTimeouts + 2
                   /\ \E iv \in loopIntervals' \ loopIntervals :
                         /\ iv.active
                         /\ iv.intervalMs = ms
                         /\ loopIntervals' = loopIntervals \cup {iv}
                   /\ UNCHANGED <<bodyHearts, bodyTimers, console>>
         /\ \A old \in loopIntervals :
              CancelLoop(old.id)
                => /\ loopIntervals' = (loopIntervals \ {old})
                                         \cup {[old EXCEPT !.active = FALSE]}
                   /\ UNCHANGED <<loopTimeouts, bursts, bodyHearts, bodyTimers,
                                  console>>
         /\ \A iv \in loopIntervals : ~iv.active => iv \in loopIntervals'
         /\ ( /\ bursts' = Append(bursts, [at |-> "random", count |-> 15,
                                           left |-> 15])
              /\ loopTimeouts' = loopTimeouts )
              => \E iv \in loopIntervals : iv.active
       ]_vars

\* C15 witness: the loop was cancelled while its two secondary timeouts were
\* pending and its initial burst was in progress, one heart of it created.
C15_Witness ==
  /\ loopIntervals # {}
  /\ \A iv \in loopIntervals : ~iv.active
  /\ loopTimeouts = 2
  /\ bursts = <<[at |-> "center", count |-> 40, left |-> 39]>>
  /\ bodyTimers # {}

\* C20: the mousemove listener creates a sparkle only while sparkleThrottle
\* is clear, and then sets it and schedules one reset timeout; a mousemove
\* while it is set changes nothing; the flag is set exactly while one reset
\* timeout is pending, and a set flag is eventually cleared.
C20_SparkleThrottle ==
  /\ [](throttleTimers \in {0, 1} /\ (sparkleThrottle <=> throttleTimers = 1))
  /\ [][ /\ \A ok \in BOOLEAN :
              sparkleThrottle /\ MouseMove(ok) => UNCHANGED vars
         /\ nextSparkle' # nextSparkle
              => /\ ~sparkleThrottle
                 /\ nextSparkle' = nextSparkle + 1
                 /\ sparkles' = sparkles \cup {nextSparkle}
         /\ ~sparkleThrottle /\ sparkleThrottle'
              => throttleTimers' = throttleTimers + 1
         /\ sparkleThrottle /\ nextSparkle' = nextSparkle
              => sparkles' \subseteq sparkles
       ]_vars
  /\ (sparkleThrottle ~> ~sparkleThrottle)

\* C20 witness: the flag is set for the second time, after a reset, and the
\* second sparkle was created with it.
C20_Witness ==
  /\ sparkleThrottle
  /\ throttleTimers = 1
  /\ nextSparkle = 3
  /\ 2 \in sparkles

\* C17: every floating heart, burst heart and sparkle that is attached has
\* its own removal timeout pending, whatever was stopped or cancelled since
\* it was spawned; the timeout, once it fires, leaves the element removed,
\* and when the element was detached before, changes nothing else and logs
\* nothing; with timeouts firing, every element spawned is eventually gone
\* and its timeout spent.
C17_TransientsRemoved ==
  /\ [](/\ children \subseteq removeTimers
        /\ bodyHearts \subseteq bodyTimers
        /\ sparkles \subseteq sparkleTimers)
  /\ [][\A h \in 1..MaxTransient :
          /\ h \in removeTimers /\ h \notin removeTimers'
               => /\ children' = children \ {h}
                  /\ console' = console
                  /\ removeTimers' = removeTimers \ {h}
          /\ h \in bodyTimers /\ h \notin bodyTimers'
               => /\ bodyHearts' = bodyHearts \ {h}
                  /\ console' = console
                  /\ bodyTimers' = bodyTimers \ {h}
          /\ h \in sparkleTimers /\ h \notin sparkleTimers'
               => /\ sparkles' = sparkles \ {h}
                  /\ console' = console
                  /\ sparkleTimers' = sparkleTimers \ {h}]_vars
  /\ \A h \in 1..MaxTransient :
        /\ h \in removeTimers ~> (h \notin removeTimers /\ h \notin children)
        /\ h \in bodyTimers ~> (h \notin bodyTimers /\ h \notin bodyHearts)
        /\ h \in sparkleTimers ~> (h \notin sparkleTimers /\ h \notin sparkles)

\* C17 witness: the emitter was stopped and the loop cancelled; a floating
\* heart spawned before is still attached with its removal timeout pending,
\* and the removal timeout of a burst heart has fired after the heart had
\* been detached.
C17_Witness ==
  /\ nextInterval = 2
  /\ heartIntervalId = NULL
  /\ loopIntervals # {}
  /\ \A iv \in loopIntervals : ~iv.active
  /\ children = {1}
  /\ removeTimers = {1}
  /\ nextBodyHeart = 2
  /\ bodyHearts = {}
  /\ bodyTimers = {}

\* C21: startFloatingHearts schedules the eight timeouts of the initial
\* batch; stopFloatingHearts leaves every pending one of them pending; a
\* pending batch timeout can fire whether or not an interval is active, and
\* when it fires below the ceiling it adds a heart to the container.
C21_BatchSurvivesStop ==
  /\ [](batchTimers > 0
          /\ (Cardinality(children) >= maxHearts \/ nextHeart <= MaxHearts)
          => ENABLED BatchTimer)
  /\ [][ /\ nextInterval' # nextInterval
              => batchTimers' = batchTimers + InitialBatch
         /\ stopFloatingHearts => batchTimers' = batchTimers
         /\ batchTimers' < batchTimers
              => /\ batchTimers' = batchTimers - 1
                 /\ intervals' = intervals
                 /\ IF Cardinality(children) < maxHearts
                      THEN children' = children \cup {nextHeart}
                      ELSE children' = children
       ]_vars

\* C21 witness: the emitter was started once and stopped before any heart
\* existed, no interval is left, all eight batch timeouts are pending and the
\* next of them to fire adds a heart to the container.
C21_Witness ==
  /\ nextInterval = 2
  /\ heartIntervalId = NULL
  /\ intervals = {}
  /\ nextHeart = 1
  /\ batchTimers = InitialBatch
  /\ ENABLED (BatchTimer /\ children' # children)

\* C22: the cleanup function of a successful initRunawayButton resets
\* escapeCount and isRunaway and leaves the Yes button's growth class and the
\* No button's text, position and runaway class as they were; these change
\* only in an escape, so after a cleanup the growth class may differ from the
\* tier min(floor(escapeCount/2), 4) = 0 of the counter.
C22_CleanupKeepsButtons ==
  [][ /\ \A i \in 1..Len(inits) :
           Cleanup(i)
             => /\ UNCHANGED <<yesClasses, noButton>>
                /\ inits[i].ok => escapeCount' = 0 /\ ~isRunaway'
      /\ yesClasses' # yesClasses \/ noButton' # noButton => EscapeStep
    ]_vars

\* C22 witness: right after a cleanup the counter is 0 and the flag false,
\* while the Yes button carries the top growth class and the No button is
\* still positioned as a runaway with an escape message.
C22_Witness ==
  /\ escapeCount = 0
  /\ ~isRunaway
  /\ yesClasses = {4}
  /\ noButton.runaway
  /\ noButton.left # Unset
  /\ noButton.text # "(label)"
  /\ dispatch = Idle

=============================================================================
